---- MODULE Spec2Model ----
(***************************************************************************)
(* Model of the CodeGeneratorAgent service: the prompt-building agent      *)
(* (agents.py), the remote-call wrapper (response_generator.py), the       *)
(* POST /api/generate handler (endpoints.py) and the application with its  *)
(* two informational routes (main.py), served by one uvicorn event loop.   *)
(*                                                                         *)
(* A Python str is a sequence of characters; each character is a one-      *)
(* character string, and a character outside ASCII is written by its code  *)
(* point ("U+2014").  A Python value is a record tagged with its type.     *)
(***************************************************************************)
EXTENDS Integers, Sequences, FiniteSets, TLC

VARIABLES
    config,     \* Config: the class attributes read at import time
    agent,      \* the module-level CodeAgent of endpoints.py
    pc,         \* per HTTP request: "absent", "queued", "awaiting", "responded"
    request,    \* per HTTP request: its route and parsed PromptRequest
    calls,      \* per HTTP request: the chat-completion calls issued for it
    outcome,    \* per HTTP request: what the remote call returned or raised
    response,   \* per HTTP request: the HTTP responses sent for it
    loop,       \* the request whose handler occupies the event loop, or 0
    test        \* a direct invocation of one callable (unit level)

vars == <<config, agent, pc, request, calls, outcome, response, loop, test>>

(***************************************************************************)
(* Bounds of the model.                                                    *)
(***************************************************************************)
\* the number of HTTP requests in flight together
NumRequests == 2
\* an input text is a concatenation of at most MaxPieces pieces
MaxPieces == 2

(***************************************************************************)
(* Python values.                                                          *)
(***************************************************************************)
PyStr(s) == [type |-> "str", chars |-> s]
PyNone == [type |-> "NoneType"]
IsStr(v) == v.type = "str"

\* the characters for which str.isspace() is true: the ones str.strip() removes
Whitespace ==
    {"\t", "\n", "U+000B", "\f", "\r", "U+001C", "U+001D", "U+001E", "U+001F", " ",
     "U+0085", "U+00A0", "U+1680", "U+2000", "U+2001", "U+2002", "U+2003",
     "U+2004", "U+2005", "U+2006", "U+2007", "U+2008", "U+2009", "U+200A",
     "U+2028", "U+2029", "U+202F", "U+205F", "U+3000"}

\* str.strip(): the text between the first and the last non-whitespace character
Strip(s) ==
    IF \A i \in 1..Len(s) : s[i] \in Whitespace THEN <<>>
    ELSE LET first == CHOOSE i \in 1..Len(s) :
                          /\ s[i] \notin Whitespace
                          /\ \A j \in 1..(i - 1) : s[j] \in Whitespace
             last == CHOOSE i \in 1..Len(s) :
                          /\ s[i] \notin Whitespace
                          /\ \A j \in (i + 1)..Len(s) : s[j] \in Whitespace
         IN  SubSeq(s, first, last)

UpperCase ==
    <<"A","B","C","D","E","F","G","H","I","J","K","L","M",
      "N","O","P","Q","R","S","T","U","V","W","X","Y","Z">>
LowerCase ==
    <<"a","b","c","d","e","f","g","h","i","j","k","l","m",
      "n","o","p","q","r","s","t","u","v","w","x","y","z">>
LowerChar(c) ==
    IF \E i \in 1..26 : UpperCase[i] = c
    THEN LowerCase[CHOOSE i \in 1..26 : UpperCase[i] = c]
    ELSE c

\* mutant: the comparison with "auto" made case-sensitive
Lower_Identity(s) == s

\* str.lower() on the characters of the model
Lower(s) == [i \in 1..Len(s) |-> LowerChar(s[i])]

\* sep.join(parts)
RECURSIVE Join(_, _)
Join(sep, parts) ==
    IF parts = <<>> THEN <<>>
    ELSE IF Len(parts) = 1 THEN parts[1]
    ELSE parts[1] \o sep \o Join(sep, Tail(parts))

(***************************************************************************)
(* String literals of the source.                                          *)
(***************************************************************************)
AutoLit == <<"a","u","t","o">>
BlankLine == <<"\n","\n">>
TargetLanguageLit ==
    <<"T","a","r","g","e","t"," ","l","a","n","g","u","a","g","e",":"," ">>
InstructionLit == <<"I","n","s","t","r","u","c","t","i","o","n",":"," ">>
ErrorLit == <<"E","r","r","o","r",":"," ">>
ReviewLit ==
    <<"\n","\n","R","e","v","i","e","w"," ","t","h","i","s"," ","c","o","d","e"," ">> \o
    <<"a","n","d"," ","s","u","g","g","e","s","t"," ">> \o
    <<"i","m","p","r","o","v","e","m","e","n","t","s",":","\n","\n">>
ExplainLit ==
    <<"\n","\n","E","x","p","l","a","i","n"," ","t","h","i","s"," ","c","o","d","e"," ">> \o
    <<"s","t","e","p"," ","b","y"," ","s","t","e","p",":","\n","\n">>

\* the triple-quoted template CodeAgent.__init__ assigns to self.system_prompt
SystemPromptLit ==
    \* agents.py line 8
    <<"\n">> \o
    \* agents.py line 9
    <<" "," "," "," "," "," "," "," ","Y","o","u"," ","a","r","e"," ","a","n"," ","A","I"," ","c","o">> \o
    <<"d","e"," ","g","e","n","e","r","a","t","i","o","n"," ","a","s","s","i","s","t","a","n","t"," ">> \o
    <<"s","p","e","c","i","a","l","i","z","e","d"," ","i","n"," ","b","u","i","l","d","i","n","g"," ">> \o
    <<"s","o","f","t","w","a","r","e"," ","p","r","o","j","e","c","t","s",".","\n">> \o
    \* agents.py line 10
    <<"\n">> \o
    \* agents.py line 11
    <<" "," "," "," "," "," "," "," ","G","u","i","d","e","l","i","n","e","s",":","\n">> \o
    \* agents.py line 12
    <<" "," "," "," "," "," "," "," ","-"," ","I","f"," ","t","h","e"," ","u","s","e","r"," ","a","s">> \o
    <<"k","s"," ","f","o","r"," ","a"," ","f","u","l","l"," ","p","r","o","j","e","c","t",","," ","s">> \o
    <<"t","r","u","c","t","u","r","e"," ","i","t"," ","c","l","e","a","r","l","y"," ","(","e",".","g">> \o
    <<"."," ","f","o","l","d","e","r","s",","," ","f","i","l","e","s",")",".","\n">> \o
    \* agents.py line 13
    <<" "," "," "," "," "," "," "," ","-"," ","I","f"," ","t","h","e"," ","u","s","e","r"," ","s","p">> \o
    <<"e","c","i","f","i","e","s"," ","a"," ","s","t","a","c","k"," ","(","l","a","n","g","u","a","g">> \o
    <<"e",","," ","f","r","a","m","e","w","o","r","k",","," ","t","o","o","l","s",")"," ","i","n"," ">> \o
    <<"t","h","e","i","r"," ","p","r","o","m","p","t",","," ","f","o","l","l","o","w"," ","i","t"," ">> \o
    <<"e","x","a","c","t","l","y",".","\n">> \o
    \* agents.py line 14
    <<" "," "," "," "," "," "," "," ","-"," ","I","f"," ","n","o"," ","s","t","a","c","k"," ","i","s">> \o
    <<" ","s","p","e","c","i","f","i","e","d",","," ","s","u","g","g","e","s","t"," ","2","-","5"," ">> \o
    <<"r","e","l","e","v","a","n","t"," ","b","a","s","i","c"," ","t","o"," ","a","d","v","a","n","c">> \o
    <<"e"," ","t","e","c","h"," ","b","a","s","e","d"," ","o","n"," ","i","m","p","l","e","m","e","n">> \o
    <<"t","a","t","i","o","n"," ","d","i","f","f","i","c","u","l","t","y"," ","l","e","v","e","l","s">> \o
    <<" ","s","t","a","c","k","s"," ","a","n","d"," ","a","s","k"," ","t","h","e"," ","u","s","e","r">> \o
    <<" ","t","o"," ","c","h","o","o","s","e"," ","b","e","f","o","r","e"," ","p","r","o","c","e","e">> \o
    <<"d","i","n","g",".","\n">> \o
    \* agents.py line 15
    <<" "," "," "," "," "," "," "," ","-"," ","O","n","c","e"," ","c","o","n","f","i","r","m","e","d">> \o
    <<","," ","b","u","i","l","d"," ","o","u","t"," ","t","h","e"," ","p","r","o","j","e","c","t"," ">> \o
    <<"s","t","e","p"," ","b","y"," ","s","t","e","p"," ","U+2014"," ","i","n","c","l","u","d","e"," ","c">> \o
    <<"o","r","e"," ","f","i","l","e","s"," ","a","n","d"," ","e","s","s","e","n","t","i","a","l"," ">> \o
    <<"s","e","t","u","p",".","\n">> \o
    \* agents.py line 16
    <<" "," "," "," "," "," "," "," ","-"," ","A","l","w","a","y","s"," ","w","r","i","t","e"," ","c">> \o
    <<"l","e","a","n",","," ","p","r","o","d","u","c","t","i","o","n","-","r","e","a","d","y"," ","c">> \o
    <<"o","d","e",".","\n">> \o
    \* agents.py line 17
    <<" "," "," "," "," "," "," "," ","-"," ","I","n","c","l","u","d","e"," ","c","o","m","m","e","n">> \o
    <<"t","s"," ","o","n","l","y"," ","f","o","r"," ","c","o","m","p","l","e","x"," ","l","o","g","i">> \o
    <<"c",".","\n">> \o
    \* agents.py line 18
    <<" "," "," "," "," "," "," "," ","-"," ","D","o"," ","n","o","t"," ","i","n","c","l","u","d","e">> \o
    <<" ","e","x","p","l","a","n","a","t","i","o","n","s"," ","u","n","l","e","s","s"," ","t","h","e">> \o
    <<" ","u","s","e","r"," ","e","x","p","l","i","c","i","t","l","y"," ","a","s","k","s",".","\n">> \o
    \* agents.py line 19
    <<" "," "," "," "," "," "," "," ","-"," ","U","s","e"," ","a","p","p","r","o","p","r","i","a","t">> \o
    <<"e"," ","f","i","l","e","/","f","o","l","d","e","r"," ","n","a","m","e","s"," ","a","n","d"," ">> \o
    <<"c","l","e","a","r","l","y"," ","s","e","p","a","r","a","t","e"," ","b","a","c","k","e","n","d">> \o
    <<","," ","f","r","o","n","t","e","n","d",","," ","a","n","d"," ","c","o","n","f","i","g"," ","f">> \o
    <<"i","l","e","s"," ","w","h","e","n"," ","r","e","l","e","v","a","n","t",".","\n">> \o
    \* agents.py line 20
    <<" "," "," "," "," "," "," "," ">>

(***************************************************************************)
(* Exceptions of the Python runtime that the code's own expressions raise. *)
(***************************************************************************)
\* str(e) of the AttributeError raised by None.<attr>
NoneAttributeError(attr) ==
    <<"'","N","o","n","e","T","y","p","e","'"," ","o","b","j","e","c","t"," ">> \o
    <<"h","a","s"," ","n","o"," ","a","t","t","r","i","b","u","t","e"," ","'">> \o
    attr \o <<"'">>
LowerAttr == <<"l","o","w","e","r">>
StripAttr == <<"s","t","r","i","p">>
\* str(e) of the IndexError raised by [][0]
IndexErrorLit ==
    <<"l","i","s","t"," ","i","n","d","e","x"," ","o","u","t"," ","o","f"," ">> \o
    <<"r","a","n","g","e">>

\* how an evaluation ends: with a value, or with an exception whose str(e) is msg
Return(v) == [kind |-> "return", value |-> v]
Raise(m) == [kind |-> "raise", msg |-> m]

(***************************************************************************)
(* config.py: the configuration holder.                                    *)
(***************************************************************************)
EnvUnset == "<unset>"
\* the environment the process starts in (os.getenv)
Environments ==
    [GROQ_API_KEY : {"gsk_key"}, MODEL_ID : {EnvUnset, "mixtral-8x7b-32768"}]

Config(env) ==
    [GROQ_API_KEY |-> env.GROQ_API_KEY,
     MODEL_ID |-> IF env.MODEL_ID = EnvUnset THEN "llama3-8b-8192" ELSE env.MODEL_ID,
     MAX_TOKENS |-> 1500,
     TEMPERATURE |-> [num |-> 5, den |-> 10]]

(***************************************************************************)
(* response_generator.py: the request model and the remote-call wrapper.   *)
(***************************************************************************)
\* a field the request body (or a call) leaves out
Omitted == [type |-> "omitted"]
Default(v, d) == IF v = Omitted THEN d ELSE v

\* PromptRequest: language defaults to "auto"
PromptRequest(prompt, language) ==
    [prompt |-> prompt, language |-> Default(language, PyStr(AutoLit))]

\* the arguments of groq_client.chat.completions.create
ChatCompletionCall(prompt) ==
    [messages |-> <<[role |-> "user", content |-> prompt]>>,
     model |-> config.MODEL_ID,
     max_tokens |-> config.MAX_TOKENS,
     temperature |-> config.TEMPERATURE]

\* mutant: the last choice read instead of the first
FirstChoiceContent_Last(completion) ==
    IF completion.choices = <<>> THEN Raise(IndexErrorLit)
    ELSE LET content == completion.choices[Len(completion.choices)].content
         IN  IF IsStr(content) THEN Return(Strip(content.chars))
             ELSE Raise(NoneAttributeError(StripAttr))

\* response.choices[0].message.content.strip()
FirstChoiceContent(completion) ==
    IF completion.choices = <<>> THEN Raise(IndexErrorLit)
    ELSE LET content == completion.choices[1].content
         IN  IF IsStr(content) THEN Return(Strip(content.chars))
             ELSE Raise(NoneAttributeError(StripAttr))

\* the try block of call_groq, given how the remote call ended
call_groq_try(remote) ==
    IF remote.kind = "raise" THEN remote ELSE FirstChoiceContent(remote.value)

\* mutant: no except clause, the exception propagates
call_groq_Propagate(remote) == call_groq_try(remote)

\* mutant: only the remote call inside the try, the response read outside it
call_groq_NarrowTry(remote) ==
    IF remote.kind = "raise" THEN Return(ErrorLit \o remote.msg)
    ELSE FirstChoiceContent(remote.value)

\* call_groq, from the moment the remote call ended: how call_groq itself ends
call_groq(remote) ==
    LET tried == call_groq_try(remote)
    IN  IF tried.kind = "raise" THEN Return(ErrorLit \o tried.msg) ELSE tried

(***************************************************************************)
(* agents.py: the prompt-building agent.                                   *)
(***************************************************************************)
CodeAgent == [system_prompt |-> SystemPromptLit]

\* a method reaches self.generator.call_groq(prompt)
Dispatch(prompt) == [kind |-> "call_groq", prompt |-> prompt]

\* mutant: the hint built from the lowered language
TargetLanguagePart_Lowered(language) == TargetLanguageLit \o Lower(language)

TargetLanguagePart(language) == TargetLanguageLit \o language
\* mutant: the instruction appended without strip()
InstructionPart_Untrimmed(instruction) == InstructionLit \o instruction

InstructionPart(instruction) == InstructionLit \o Strip(instruction)

prompt_parts(instruction, language) ==
    <<Strip(agent.system_prompt)>>
    \o (IF Lower(language) # AutoLit THEN <<TargetLanguagePart(language)>> ELSE <<>>)
    \o <<InstructionPart(instruction)>>

\* generate_code up to its call of call_groq: the prompt dispatched, or the
\* exception an argument that is no str raises
generate_code(instruction, language) ==
    IF ~IsStr(language) THEN Raise(NoneAttributeError(LowerAttr))
    ELSE IF ~IsStr(instruction) THEN Raise(NoneAttributeError(StripAttr))
    ELSE Dispatch(Join(BlankLine, prompt_parts(instruction.chars, language.chars)))

review_code(code) == Dispatch(agent.system_prompt \o ReviewLit \o code.chars)

explain_code(code) == Dispatch(agent.system_prompt \o ExplainLit \o code.chars)

(***************************************************************************)
(* endpoints.py and main.py: the HTTP surface.                             *)
(***************************************************************************)
GenerateRoute == "POST /api/generate"
RootRoute == "GET /"
HealthRoute == "GET /health"

\* mutant: the exception flattened into a 200 like call_groq's errors
generate_response_Flatten(ended) ==
    IF ended.kind = "raise"
    THEN [status |-> 200, body |-> [response |-> ErrorLit \o ended.msg]]
    ELSE [status |-> 200, body |-> [response |-> ended.value]]

\* generate_response, given how agent.generate_code ended
generate_response(ended) ==
    IF ended.kind = "raise"
    THEN [status |-> 500, body |-> [detail |-> ended.msg]]
    ELSE [status |-> 200, body |-> [response |-> ended.value]]

root == [status |-> 200,
         body |-> [message |-> "AI Code Generator API is running!", docs |-> "/docs"]]

health == [status |-> 200,
           body |-> [status |-> "healthy", service |-> "CodeGenerator API"]]

(***************************************************************************)
(* Inputs.                                                                 *)
(***************************************************************************)
\* a space, a line of text with its line break, a forged language hint
Pieces == {<<" ">>, <<"x","\n">>, TargetLanguageLit \o <<"g","o">>}

RECURSIVE Texts(_)
Texts(n) ==
    IF n = 0 THEN {<<>>}
    ELSE Texts(n - 1) \cup {t \o p : t \in Texts(n - 1), p \in Pieces}

\* "auto" in every letter case
AutoSpellings ==
    {<<a, u, t, o>> : a \in {"a","A"}, u \in {"u","U"}, t \in {"t","T"}, o \in {"o","O"}}

OtherLanguages ==
    {<<>>, <<"g","o">>, <<"G","o">>, <<" ","a","u","t","o">>, <<"g","o","\n","x">>}

InstructionValues == {PyStr(t) : t \in Texts(MaxPieces)}
LanguageValues == {PyStr(t) : t \in AutoSpellings \cup OtherLanguages} \cup {Omitted}
CodeValues == {PyStr(t) : t \in Texts(MaxPieces)}

\* what the remote chat-completion call can do: raise, or return a
\* completion whose choices carry a content that is a str or None
Choice(content) == [content |-> content]
RemoteOutcomes ==
    {Raise(<<"t","i","m","e","o","u","t">>),
     Return([choices |-> <<>>]),
     Return([choices |-> <<Choice(PyNone)>>]),
     Return([choices |-> <<Choice(PyStr(<<" ","o","k","\n">>))>>]),
     Return([choices |-> <<Choice(PyStr(<<"a"," ">>)), Choice(PyStr(<<"b">>))>>])}

(***************************************************************************)
(* Unit level: one callable invoked directly, as a test does.              *)
(***************************************************************************)
Idle == [pc |-> "idle"]

\* the invocation ran up to the remote call, or ended before it
Started(fn, args, ev, ended) ==
    IF ev.kind = "raise"
    THEN [pc |-> "done", fn |-> fn, args |-> args, calls |-> <<>>, result |-> ended]
    ELSE [pc |-> "awaiting", fn |-> fn, args |-> args,
          calls |-> <<ChatCompletionCall(ev.prompt)>>]

TestGenerateCode(instruction, language) ==
    /\ test.pc = "idle"
    /\ LET ev == generate_code(instruction, Default(language, PyStr(AutoLit)))
       IN  test' = Started("generate_code",
                           [instruction |-> instruction, language |-> language], ev, ev)
    /\ UNCHANGED <<config, agent, pc, request, calls, outcome, response, loop>>

TestReviewCode(code) ==
    /\ test.pc = "idle"
    /\ LET ev == review_code(code)
       IN  test' = Started("review_code", [code |-> code], ev, ev)
    /\ UNCHANGED <<config, agent, pc, request, calls, outcome, response, loop>>

TestExplainCode(code) ==
    /\ test.pc = "idle"
    /\ LET ev == explain_code(code)
       IN  test' = Started("explain_code", [code |-> code], ev, ev)
    /\ UNCHANGED <<config, agent, pc, request, calls, outcome, response, loop>>

\* generate_response awaited with a PromptRequest; fields that are no str
\* reach it only through a request built without validation
TestGenerateResponse(prompt, language) ==
    /\ test.pc = "idle"
    /\ LET req == PromptRequest(prompt, language)
           ev == generate_code(req.prompt, req.language)
       IN  test' = Started("generate_response",
                           [prompt |-> prompt, language |-> language],
                           ev, generate_response(ev))
    /\ UNCHANGED <<config, agent, pc, request, calls, outcome, response, loop>>

TestRemoteReply(remote) ==
    /\ test.pc = "awaiting"
    /\ test' = [pc |-> "done", fn |-> test.fn, args |-> test.args,
                calls |-> test.calls, outcome |-> remote,
                result |-> IF test.fn = "generate_response"
                           THEN generate_response(call_groq(remote))
                           ELSE call_groq(remote)]
    /\ UNCHANGED <<config, agent, pc, request, calls, outcome, response, loop>>

TestReset ==
    /\ test.pc = "done"
    /\ test' = Idle
    /\ UNCHANGED <<config, agent, pc, request, calls, outcome, response, loop>>

Reqs == 1..NumRequests
NoRequest == [route |-> "none"]
NoOutcome == [kind |-> "none"]

Init ==
    /\ config \in {Config(env) : env \in Environments}
    /\ agent = CodeAgent
    /\ pc = [r \in Reqs |-> "absent"]
    /\ request = [r \in Reqs |-> NoRequest]
    /\ calls = [r \in Reqs |-> <<>>]
    /\ outcome = [r \in Reqs |-> NoOutcome]
    /\ response = [r \in Reqs |-> <<>>]
    /\ loop = 0
    /\ test = Idle

(***************************************************************************)
(* The service: HTTP requests served by the single event loop that         *)
(* uvicorn.run starts.  generate_response is a coroutine that never        *)
(* awaits, and call_groq calls the synchronous client: from the moment the *)
(* handler starts until it returns, the loop runs nothing else.            *)
(***************************************************************************)
\* the request bodies clients send: prompt a str, language a str or left out
BodyPrompts ==
    {PyStr(<<" ","x","\n">>),
     PyStr(<<"x","\n">> \o TargetLanguageLit \o <<"g","o">>)}
BodyLanguages == {Omitted, PyStr(<<"G","o">>)}

\* requests take the slots in the order they arrive
NextSlot(r) == pc[r] = "absent" /\ \A q \in 1..(r - 1) : pc[q] # "absent"

\* a POST /api/generate whose body the framework parsed into a PromptRequest
ReceiveGenerate(r, prompt, language) ==
    /\ NextSlot(r)
    /\ pc' = [pc EXCEPT ![r] = "queued"]
    /\ request' = [request EXCEPT
                     ![r] = [route |-> GenerateRoute,
                             body |-> PromptRequest(prompt, language)]]
    /\ UNCHANGED <<config, agent, calls, outcome, response, loop, test>>

\* a GET / or a GET /health
ReceiveGet(r, route) ==
    /\ NextSlot(r)
    /\ pc' = [pc EXCEPT ![r] = "queued"]
    /\ request' = [request EXCEPT ![r] = [route |-> route]]
    /\ UNCHANGED <<config, agent, calls, outcome, response, loop, test>>

\* the event loop is free to start the handler of r
CanServe(r) == pc[r] = "queued" /\ loop = 0

\* generate_response runs up to the remote call, which blocks the loop
BeginGenerate(r) ==
    /\ CanServe(r)
    /\ request[r].route = GenerateRoute
    /\ LET ev == generate_code(request[r].body.prompt, request[r].body.language)
       IN  IF ev.kind = "raise"
           THEN /\ pc' = [pc EXCEPT ![r] = "responded"]
                /\ response' = [response EXCEPT
                                  ![r] = Append(@, generate_response(ev))]
                /\ UNCHANGED <<calls, loop>>
           ELSE /\ pc' = [pc EXCEPT ![r] = "awaiting"]
                /\ calls' = [calls EXCEPT
                               ![r] = Append(@, ChatCompletionCall(ev.prompt))]
                /\ loop' = r
                /\ UNCHANGED response
    /\ UNCHANGED <<config, agent, request, outcome, test>>

\* mutant: a failed remote call is issued once more before answering
RemoteReply_Retry(r, remote) ==
    /\ pc[r] = "awaiting"
    /\ loop = r
    /\ IF call_groq_try(remote).kind = "raise" /\ Len(calls[r]) < 2
       THEN /\ calls' = [calls EXCEPT ![r] = Append(@, calls[r][1])]
            /\ UNCHANGED <<outcome, response, pc, loop>>
       ELSE /\ outcome' = [outcome EXCEPT ![r] = remote]
            /\ response' = [response EXCEPT
                              ![r] = Append(@, generate_response(call_groq(remote)))]
            /\ pc' = [pc EXCEPT ![r] = "responded"]
            /\ loop' = 0
            /\ UNCHANGED calls
    /\ UNCHANGED <<config, agent, request, test>>

\* the remote call ends; call_groq, generate_code and the handler return
RemoteReply(r, remote) ==
    /\ pc[r] = "awaiting"
    /\ loop = r
    /\ outcome' = [outcome EXCEPT ![r] = remote]
    /\ response' = [response EXCEPT
                      ![r] = Append(@, generate_response(call_groq(remote)))]
    /\ pc' = [pc EXCEPT ![r] = "responded"]
    /\ loop' = 0
    /\ UNCHANGED <<config, agent, request, calls, test>>

ServeRoot(r) ==
    /\ CanServe(r)
    /\ request[r].route = RootRoute
    /\ response' = [response EXCEPT ![r] = Append(@, root)]
    /\ pc' = [pc EXCEPT ![r] = "responded"]
    /\ UNCHANGED <<config, agent, request, calls, outcome, loop, test>>

ServeHealth(r) ==
    /\ CanServe(r)
    /\ request[r].route = HealthRoute
    /\ response' = [response EXCEPT ![r] = Append(@, health)]
    /\ pc' = [pc EXCEPT ![r] = "responded"]
    /\ UNCHANGED <<config, agent, request, calls, outcome, loop, test>>

Next ==
    \/ \E r \in Reqs, p \in BodyPrompts, l \in BodyLanguages : ReceiveGenerate(r, p, l)
    \/ \E r \in Reqs, route \in {RootRoute, HealthRoute} : ReceiveGet(r, route)
    \/ \E r \in Reqs : BeginGenerate(r)
    \/ \E r \in Reqs, o \in RemoteOutcomes : RemoteReply(r, o)
    \/ \E r \in Reqs : ServeRoot(r)
    \/ \E r \in Reqs : ServeHealth(r)

Spec == Init /\ [][Next]_vars

NextUnit ==
    \/ \E i \in InstructionValues, l \in LanguageValues : TestGenerateCode(i, l)
    \/ \E c \in CodeValues : TestReviewCode(c)
    \/ \E c \in CodeValues : TestExplainCode(c)
    \/ \E p \in InstructionValues \cup {PyNone}, l \in LanguageValues \cup {PyNone} :
           TestGenerateResponse(p, l)
    \/ \E o \in RemoteOutcomes : TestRemoteReply(o)
    \/ TestReset

SpecUnit == Init /\ [][NextUnit]_vars
(***************************************************************************)
(* Properties.                                                             *)
(***************************************************************************)
\* t is s without its leading and trailing whitespace, stated without Strip
IsTrimOf(t, s) ==
    \E i \in 0..(Len(s) - Len(t)) :
        /\ SubSeq(s, i + 1, i + Len(t)) = t
        /\ \A j \in 1..i : s[j] \in Whitespace
        /\ \A j \in (i + Len(t) + 1)..Len(s) : s[j] \in Whitespace
        /\ t = <<>> \/ (t[1] \notin Whitespace /\ t[Len(t)] \notin Whitespace)

\* the POST /api/generate requests whose remote call has ended
Answered == {r \in Reqs : /\ request[r].route = GenerateRoute
                          /\ pc[r] = "responded"
                          /\ outcome[r].kind # "none"}

\* C1: when the remote call of a POST /api/generate request raises an
\* exception with message m, or the completion it returns is malformed so
\* that reading it raises with message m, the one response sent has status
\* 200 and body exactly {"response": "Error: " + m}.
C1_RemoteFailureAnswered200 ==
    \A r \in Answered :
        LET tried == call_groq_try(outcome[r])
        IN  tried.kind = "raise" =>
                response[r] = <<[status |-> 200,
                                 body |-> [response |-> ErrorLit \o tried.msg]]>>

C1_Witness ==
    \E r \in Answered :
        /\ outcome[r] = Raise(<<"t","i","m","e","o","u","t">>)
        /\ response[r][1].status = 200
        /\ response[r][1].body.response = ErrorLit \o <<"t","i","m","e","o","u","t">>

\* C2: when the remote call of a POST /api/generate request succeeds and its
\* first choice carries the text t, the one response sent has status 200 and
\* a body whose only field, response, is t without its leading and trailing
\* whitespace; later choices are not used.
C2_SuccessAnsweredTrimmedFirstChoice ==
    \A r \in Answered :
        (/\ outcome[r].kind = "return"
         /\ outcome[r].value.choices # <<>>
         /\ IsStr(outcome[r].value.choices[1].content)) =>
            /\ Len(response[r]) = 1
            /\ response[r][1].status = 200
            /\ DOMAIN response[r][1].body = {"response"}
            /\ IsTrimOf(response[r][1].body.response,
                        outcome[r].value.choices[1].content.chars)

C2_Witness ==
    \E r \in Answered :
        /\ outcome[r].kind = "return"
        /\ Len(outcome[r].value.choices) = 2
        /\ outcome[r].value.choices[1].content = PyStr(<<"a"," ">>)
        /\ response[r] = <<[status |-> 200, body |-> [response |-> <<"a">>]]>>

\* C8: every POST /api/generate request the handler has started has issued
\* exactly one chat-completion call, whose sole message is the assembled
\* prompt in the user role, with max_tokens 1500 and temperature 0.5; the
\* call is never issued again; at most one response is sent, and it is sent
\* only once that call has returned or raised, which nothing else delays:
\* the answer is one step away whenever the call is pending.
C8_OneCallOneResponse ==
    \A r \in Reqs :
        request[r].route = GenerateRoute =>
            /\ pc[r] = "queued" => calls[r] = <<>> /\ response[r] = <<>>
            /\ pc[r] \in {"awaiting", "responded"} =>
                   /\ Len(calls[r]) = 1
                   /\ calls[r][1].messages =
                          <<[role |-> "user",
                             content |-> Join(BlankLine,
                                              prompt_parts(request[r].body.prompt.chars,
                                                           request[r].body.language.chars))]>>
                   /\ calls[r][1].model = config.MODEL_ID
                   /\ calls[r][1].max_tokens = 1500
                   /\ 2 * calls[r][1].temperature.num = calls[r][1].temperature.den
            /\ pc[r] = "awaiting" =>
                   /\ response[r] = <<>>
                   /\ outcome[r].kind = "none"
                   /\ ENABLED (\E o \in RemoteOutcomes : RemoteReply(r, o))
            /\ pc[r] = "responded" => Len(response[r]) = 1 /\ outcome[r].kind # "none"

C8_Witness ==
    \E r \in Answered :
        /\ outcome[r].kind = "raise"
        /\ Len(calls[r]) = 1
        /\ Len(response[r]) = 1

\* C9: the shared agent and configuration are never changed after startup,
\* and a request waiting on its remote call does not prevent another request
\* that has arrived (a POST /api/generate, a GET / or a GET /health) from
\* being handled.
C9_WaitingRequestBlocksNoOther ==
    /\ agent = CodeAgent
    /\ config \in {Config(env) : env \in Environments}
    /\ \A r, q \in Reqs : (pc[r] = "awaiting" /\ pc[q] = "queued") => CanServe(q)

\* C10: a POST /api/generate request whose body holds a str prompt and a str
\* language is answered with status 200 whatever the remote call does: the
\* handler's 500 branch is never taken.
C10_ValidRequestAlways200 ==
    \A r \in Reqs :
        (request[r].route = GenerateRoute /\ pc[r] = "responded") =>
            /\ Len(response[r]) = 1
            /\ response[r][1].status = 200

C10_Witness ==
    \E r, q \in Answered :
        /\ outcome[r] = Return([choices |-> <<>>])
        /\ outcome[q] = Return([choices |-> <<Choice(PyNone)>>])
        /\ response[r][1].status = 200
        /\ response[q][1].status = 200

\* the positions of s at which a line starts (lines end at "\n")
LineStarts(s) == {i \in 1..(Len(s) + 1) : i = 1 \/ s[i - 1] = "\n"}
StartsAt(s, i, p) == i + Len(p) - 1 <= Len(s) /\ SubSeq(s, i, i + Len(p) - 1) = p
\* the lines of s that start with p, and the lines of s that are exactly l
LinesStartingWith(s, p) == {i \in LineStarts(s) : StartsAt(s, i, p)}
LinesEqualTo(s, l) ==
    {i \in LineStarts(s) :
        StartsAt(s, i, l) /\ (i + Len(l) = Len(s) + 1 \/ s[i + Len(l)] = "\n")}
TargetLanguageLabel == SubSeq(TargetLanguageLit, 1, Len(TargetLanguageLit) - 1)

\* a prompt was assembled from an instruction and a language, both str (the
\* language possibly left out), by generate_code called directly or through
\* the handler, and was passed to call_groq
Assembled ==
    /\ test.pc \in {"awaiting", "done"}
    /\ test.fn \in {"generate_code", "generate_response"}
    /\ test.calls # <<>>
TestPrompt == test.calls[1].messages[1].content
TestInstruction ==
    IF test.fn = "generate_code" THEN test.args.instruction.chars
    ELSE test.args.prompt.chars
LanguageIsAuto ==
    test.args.language = Omitted \/ test.args.language.chars \in AutoSpellings

\* C4 as stated: for every instruction, a prompt assembled for a language
\* that is omitted or "auto" in any letter case has no "Target language:" line.
C4_NoTargetLanguageLine ==
    (Assembled /\ LanguageIsAuto) =>
        LinesStartingWith(TestPrompt, TargetLanguageLabel) = {}

\* C4 amended: for a language that is omitted or "auto" in any letter case,
\* every "Target language:" line of the prompt lies inside the trimmed
\* instruction text that ends the prompt (generate_code adds none); an
\* instruction without a line break yields a prompt without such a line.
C4_NoTargetLanguageLineAdded ==
    (Assembled /\ LanguageIsAuto) =>
        /\ \A i \in LinesStartingWith(TestPrompt, TargetLanguageLabel) :
               i > Len(TestPrompt) - Len(Strip(TestInstruction))
        /\ (\A j \in 1..Len(TestInstruction) : TestInstruction[j] # "\n") =>
               LinesStartingWith(TestPrompt, TargetLanguageLabel) = {}

C4_Witness ==
    /\ Assembled
    /\ test.fn = "generate_response"
    /\ test.args.language = PyStr(<<"A","u","T","o">>)
    /\ test.args.prompt = PyStr(TargetLanguageLit \o <<"g","o">>)
    /\ LinesStartingWith(TestPrompt, TargetLanguageLabel) = {}

\* C5 as stated: for every instruction and every language v that is not
\* "auto" in any letter case, the prompt has exactly one line
\* "Target language: v", and it stands between the template and the
\* "Instruction:" segment.
C5_ExactlyOneTargetLanguageLine ==
    (Assembled /\ ~LanguageIsAuto) =>
        LET v == test.args.language.chars
            template == Strip(agent.system_prompt)
        IN  LinesEqualTo(TestPrompt, TargetLanguageLit \o v) = {Len(template) + 3}

\* C5 amended: for a language v that is not "auto" in any letter case, the
\* prompt is the template, a blank line, the segment "Target language: v"
\* with v verbatim, a blank line, and the "Instruction:" segment; when v has
\* no line break, that segment is one line, and the only line
\* "Target language: v" before the instruction text.
C5_OneTargetLanguageSegment ==
    (Assembled /\ ~LanguageIsAuto) =>
        LET v == test.args.language.chars
            template == Strip(agent.system_prompt)
            segment == TargetLanguageLit \o v
            head == Len(TestPrompt) - Len(Strip(TestInstruction))
        IN  /\ SubSeq(TestPrompt, 1, head) =
                   template \o BlankLine \o segment \o BlankLine \o InstructionLit
            /\ (\A j \in 1..Len(v) : v[j] # "\n") =>
                   {i \in LinesEqualTo(TestPrompt, segment) : i <= head}
                       = {Len(template) + 3}

C5_Witness ==
    /\ Assembled
    /\ test.args.language = PyStr(<<"G","o">>)
    /\ LinesEqualTo(TestPrompt, TargetLanguageLit \o <<"G","o">>)
           = {Len(Strip(agent.system_prompt)) + 3}

\* C6: for every instruction and language, the prompt ends with a blank
\* line, "Instruction: " and the instruction without its leading and
\* trailing whitespace; what precedes is the template, or the template, a
\* blank line and the "Target language:" segment.
C6_EndsWithTrimmedInstruction ==
    Assembled =>
        \E k \in 0..Len(TestInstruction) :
            LET n == Len(TestPrompt)
                tail == Len(BlankLine) + Len(InstructionLit) + k
            IN  /\ tail <= n
                /\ IsTrimOf(SubSeq(TestPrompt, n - k + 1, n), TestInstruction)
                /\ SubSeq(TestPrompt, n - tail + 1, n - k) = BlankLine \o InstructionLit
                /\ SubSeq(TestPrompt, 1, n - tail) \in
                       {Strip(agent.system_prompt),
                        Strip(agent.system_prompt) \o BlankLine \o TargetLanguageLit
                            \o Default(test.args.language, PyStr(AutoLit)).chars}

C6_Witness ==
    /\ Assembled
    /\ TestInstruction = <<" ", "x", "\n">>
    /\ SubSeq(TestPrompt, Len(TestPrompt) - 2, Len(TestPrompt)) = <<":", " ", "x">>

\* C7: review_code and explain_code dispatch the template, their header and
\* the code, where the template is character for character the leading
\* segment of the prompt generate_code builds.
C7_SameTemplateInAllThree ==
    LET template == prompt_parts(<<>>, AutoLit)[1]
    IN  /\ (test.pc = "awaiting" /\ test.fn = "review_code") =>
               test.calls[1].messages[1].content
                   = template \o ReviewLit \o test.args.code.chars
        /\ (test.pc = "awaiting" /\ test.fn = "explain_code") =>
               test.calls[1].messages[1].content
                   = template \o ExplainLit \o test.args.code.chars

\* C3: an exception escaping agent.generate_code in the handler becomes a
\* response of status 500 whose detail is the exception's message; it
\* yields no 200 and no remote call, and a 500 has no other origin.
C3_EscapingExceptionIs500 ==
    (test.pc = "done" /\ test.fn = "generate_response") =>
        LET req == PromptRequest(test.args.prompt, test.args.language)
            ev == generate_code(req.prompt, req.language)
        IN  /\ ev.kind = "raise" =>
                   /\ test.result = [status |-> 500, body |-> [detail |-> ev.msg]]
                   /\ test.calls = <<>>
            /\ test.result.status = 500 => ev.kind = "raise"

C3_Witness ==
    /\ test.pc = "done"
    /\ test.fn = "generate_response"
    /\ test.args.language = PyNone
    /\ test.result = [status |-> 500,
                      body |-> [detail |-> NoneAttributeError(LowerAttr)]]
====
